---- MODULE Spec2Model ----
(***************************************************************************)
(* Model of the species catalog editing UI:                                *)
(*   SpeciesCard        (src/app/species/species-card.tsx)                 *)
(*   EditSpeciesDialog  (src/unnamed/part_000)                             *)
(* A card owns a cached copy of one record and three dialog flags; the     *)
(* edit dialog owns a form and a loading flag.  Remote update and delete   *)
(* requests are asynchronous: a handler runs up to its await in one step   *)
(* and its continuation (try tail / catch / finally) runs in the step in   *)
(* which the remote store answers.                                         *)
(*                                                                         *)
(* Strings the code inspects (length, parsing) are sequences of one        *)
(* character strings; nullable values are tagged records.                  *)
(***************************************************************************)
EXTENDS Integers, Sequences, FiniteSets, TLC

(* ---------------- bounds of the model ---------------- *)
MaxTypes == 1
MaxInFlight == 2

(* ---------------- values ---------------- *)
NullStr == [isNull |-> TRUE, v |-> <<>>]
Str(s) == [isNull |-> FALSE, v |-> s]

NullNum == [kind |-> "null", v |-> 0]
NaN == [kind |-> "nan", v |-> 0]
Num(n) == [kind |-> "number", v |-> n]

Kingdoms == {"Animalia", "Plantae", "Fungi", "Protista", "Archaea", "Bacteria"}

EditableFields == {"scientific_name", "common_name", "kingdom", "total_population", "description"}

Digits == <<"0", "1", "2", "3", "4", "5", "6", "7", "8", "9">>

IsDigit(c) == \E i \in 1..10 : Digits[i] = c

DigitVal(c) == (CHOOSE i \in 1..10 : Digits[i] = c) - 1

RECURSIVE DigitsPrefixLen(_)
DigitsPrefixLen(s) ==
  IF s = <<>> \/ ~IsDigit(Head(s)) THEN 0 ELSE 1 + DigitsPrefixLen(Tail(s))

RECURSIVE DigitsValue(_, _)
DigitsValue(s, acc) ==
  IF s = <<>> THEN acc ELSE DigitsValue(Tail(s), acc * 10 + DigitVal(Head(s)))

(* parseInt(value, 10): optional sign, then the longest prefix of decimal   *)
(* digits; NaN when there is no digit.                                      *)
ParseInt(s) ==
  LET neg == s # <<>> /\ Head(s) = "-"
      signed == s # <<>> /\ Head(s) \in {"-", "+"}
      rest == IF signed THEN Tail(s) ELSE s
      n == DigitsPrefixLen(rest)
      mag == DigitsValue(SubSeq(rest, 1, n), 0)
  IN IF n = 0 THEN NaN ELSE Num(IF neg THEN 0 - mag ELSE mag)

(* setValueAs of the population input: "" becomes null *)
SetValueAsZero(value) == IF value = <<>> THEN Num(0) ELSE ParseInt(value)

SetValueAs(value) == IF value = <<>> THEN NullNum ELSE ParseInt(value)

(* text a number input shows for a default value (String(n), "" for null) *)
RECURSIVE NatToText(_)
NatToText(n) ==
  IF n < 10 THEN <<Digits[n + 1]>> ELSE NatToText(n \div 10) \o <<Digits[(n % 10) + 1]>>

NumToText(p) ==
  IF p.kind # "number" THEN <<>>
  ELSE IF p.v < 0 THEN <<"-">> \o NatToText(0 - p.v) ELSE NatToText(p.v)

(* ---------------- inputs ---------------- *)
Record1 ==
  [id |-> 1, author |-> "u1", scientific_name |-> <<"a">>, common_name |-> NullStr,
   kingdom |-> "Animalia", total_population |-> NullNum, description |-> NullStr,
   image |-> NullStr]

Record2 ==
  [id |-> 2, author |-> "u1", scientific_name |-> <<"b">>, common_name |-> Str(<<"c">>),
   kingdom |-> "Plantae", total_population |-> Num(7), description |-> Str(<<"d">>),
   image |-> Str(<<"i">>)]

InitialRecords == {Record1, Record2}

Viewers == {"u1", "u2"}

SciInputs == {<<>>, <<"a">>, <<"b">>}
CommonInputs == {<<>>, <<"c">>}
KingdomInputs == {"Animalia", "Fungi"}
PopInputs == {<<>>, <<"0">>, <<"-", "3">>, <<"1", ".", "5">>}
DescInputs == {<<>>, <<"d">>}

(* what a failed remote call hands to the catch block: an Error instance    *)
(* with a message, or a value that is not an Error instance                 *)
Failures == {[isError |-> TRUE, message |-> "network"],
             [isError |-> FALSE, message |-> "denied"]}

NoRow == [exists |-> FALSE]
Row(r) == [exists |-> TRUE, row |-> r]

(* one call a handler makes to a collaborator or to a prop *)
Call(name, arg) == [call |-> name, arg |-> arg]

Toast(title, description, variant) ==
  Call("toast", [title |-> title, description |-> description, variant |-> variant])

(* a call of one of the card's dialog flag setters *)
SetFlag(name, value) == Call(name, [value |-> value])

CallsOf(calls, name) == SelectSeq(calls, LAMBDA c : c.call = name)

VARIABLES
  species,          \* prop of SpeciesCard: the record the card was mounted with
  sessionId,        \* prop of SpeciesCard: the viewer's identity
  open,             \* detail dialog flag
  openEdit,         \* edit dialog flag
  confirmDelete,    \* delete confirmation flag
  currentSpecies,   \* the card's cached record
  loading,          \* EditSpeciesDialog: submit in progress
  form,             \* EditSpeciesDialog: values held by the form
  popText,          \* text shown in the population input
  errors,           \* field errors of the last resolver run
  pendingUpdates,   \* update requests awaiting an answer, with the handler's closure
  pendingDeletes,   \* delete requests awaiting an answer
  remote,           \* the row in the remote store
  effects,          \* the calls made by the handler step that ran last: remote
                    \* store, toast, router, the callback prop and the card's
                    \* dialog flag setters (the dialog's setOpen is setOpenEdit)
  nTypes            \* edits of form fields so far

vars == <<species, sessionId, open, openEdit, confirmDelete, currentSpecies, loading,
          form, popText, errors, pendingUpdates, pendingDeletes, remote, effects,
          nTypes>>

(* ---------------- EditSpeciesDialog ---------------- *)

(* useForm defaultValues *)
DefaultValues(s) ==
  [scientific_name |-> s.scientific_name, common_name |-> s.common_name,
   kingdom |-> s.kingdom, total_population |-> s.total_population,
   description |-> s.description]

(* speciesSchema: the set of field errors for the form data *)
SpeciesSchemaNoMin(data) ==
  {[field |-> "kingdom", message |-> "Invalid enum value"] :
      x \in {y \in {data.kingdom} : y \notin Kingdoms}}
  \cup
  {[field |-> "total_population", message |-> "Expected number, received nan"] :
      x \in {y \in {data.total_population} : y.kind = "nan"}}

SpeciesSchema(data) ==
  {[field |-> "scientific_name", message |-> "Scientific name is required"] :
      x \in {y \in {data.scientific_name} : Len(y) < 1}}
  \cup
  {[field |-> "kingdom", message |-> "Invalid enum value"] :
      x \in {y \in {data.kingdom} : y \notin Kingdoms}}
  \cup
  {[field |-> "total_population", message |-> "Expected number, received nan"] :
      x \in {y \in {data.total_population} : y.kind = "nan"}}

(* the object given to .update(...) *)
UpdatePayload(data) ==
  [scientific_name |-> data.scientific_name, common_name |-> data.common_name,
   kingdom |-> data.kingdom, total_population |-> data.total_population,
   description |-> data.description]

(* the argument of onSpeciesUpdated: {...species, <five fields of data>} *)
MergedRecordNoSpread(s, data) ==
  [id |-> s.id, author |-> s.author, image |-> NullStr,
   scientific_name |-> data.scientific_name, common_name |-> data.common_name,
   kingdom |-> data.kingdom, total_population |-> data.total_population,
   description |-> data.description]

MergedRecordFreshId(s, data) ==
  [s EXCEPT !.id = 0,
            !.scientific_name = data.scientific_name,
            !.common_name = data.common_name,
            !.kingdom = data.kingdom,
            !.total_population = data.total_population,
            !.description = data.description]

MergedRecord(s, data) ==
  [s EXCEPT !.scientific_name = data.scientific_name,
            !.common_name = data.common_name,
            !.kingdom = data.kingdom,
            !.total_population = data.total_population,
            !.description = data.description]

(* the submit button: disabled={loading} *)
SubmitDisabledNever == FALSE

SubmitDisabled == loading

RemoveAt(q, i) == SubSeq(q, 1, i - 1) \o SubSeq(q, i + 1, Len(q))

(* handleSubmit: the resolver accepts the form data; doOnSubmit runs up to   *)
(* its await: setLoading(true) and the update request keyed by species.id,  *)
(* species being the prop of the render the handler belongs to.             *)
SubmitValid ==
  /\ openEdit
  /\ ~SubmitDisabled
  /\ Len(pendingUpdates) < MaxInFlight
  /\ SpeciesSchema(form) = {}
  /\ loading' = TRUE
  /\ errors' = {}
  /\ pendingUpdates' = Append(pendingUpdates, [data |-> form, species |-> currentSpecies])
  /\ effects' = <<Call("update", [id |-> currentSpecies.id, fields |-> UpdatePayload(form)])>>
  /\ UNCHANGED <<species, sessionId, open, openEdit, confirmDelete, currentSpecies,
                 form, popText, pendingDeletes, remote, nTypes>>

(* handleSubmit: the resolver rejects the form data; doOnSubmit is not called *)
SubmitInvalid ==
  /\ openEdit
  /\ ~SubmitDisabled
  /\ SpeciesSchema(form) # {}
  /\ errors' = SpeciesSchema(form)
  /\ effects' = <<>>
  /\ UNCHANGED <<species, sessionId, open, openEdit, confirmDelete, currentSpecies,
                 loading, form, popText, pendingUpdates, pendingDeletes, remote, nTypes>>

(* the remote store applies an update to the row matching the id *)
RemoteUpdate(r, id, fields) ==
  IF r.exists /\ r.row.id = id THEN Row(MergedRecord(r.row, fields)) ELSE r

HandleSpeciesUpdatedDropped(updatedSpecies) == currentSpecies

(* handleSpeciesUpdated: setCurrentSpecies(updatedSpecies) *)
HandleSpeciesUpdated(updatedSpecies) == updatedSpecies

(* doOnSubmit after the await, no error: callback, toast, setOpen(false),   *)
(* finally setLoading(false)                                                *)
UpdateSucceeds(i) ==
  /\ i \in 1..Len(pendingUpdates)
  /\ LET req == pendingUpdates[i]
         merged == MergedRecord(req.species, req.data)
     IN /\ remote' = RemoteUpdate(remote, req.species.id, UpdatePayload(req.data))
        /\ currentSpecies' = HandleSpeciesUpdated(merged)
        /\ effects' = <<Call("onSpeciesUpdated", merged),
                        Toast("Species updated",
                              "The species information has been updated successfully.",
                              "default"),
                        SetFlag("setOpenEdit", FALSE)>>
  /\ pendingUpdates' = RemoveAt(pendingUpdates, i)
  /\ openEdit' = FALSE
  /\ loading' = FALSE
  /\ UNCHANGED <<species, sessionId, open, confirmDelete, form, popText, errors,
                 pendingDeletes, nTypes>>

(* the catch block of doOnSubmit: a toast only for an Error instance *)
UpdateCatch(failure) ==
  IF failure.isError
  THEN <<Toast("Error updating species", failure.message, "destructive")>>
  ELSE <<>>

(* doOnSubmit after the await, error thrown: catch, finally setLoading(false) *)
UpdateFailsWithMerge(i, failure) ==
  /\ i \in 1..Len(pendingUpdates)
  /\ pendingUpdates' = RemoveAt(pendingUpdates, i)
  /\ currentSpecies' = MergedRecord(pendingUpdates[i].species, pendingUpdates[i].data)
  /\ effects' = <<Call("onSpeciesUpdated", currentSpecies')>> \o UpdateCatch(failure)
  /\ loading' = FALSE
  /\ UNCHANGED <<species, sessionId, open, openEdit, confirmDelete, form, popText,
                 errors, pendingDeletes, remote, nTypes>>

UpdateFailsNoFinally(i, failure) ==
  /\ i \in 1..Len(pendingUpdates)
  /\ pendingUpdates' = RemoveAt(pendingUpdates, i)
  /\ effects' = UpdateCatch(failure)
  /\ UNCHANGED <<species, sessionId, open, openEdit, confirmDelete, currentSpecies, loading,
                 form, popText, errors, pendingDeletes, remote, nTypes>>

UpdateFails(i, failure) ==
  /\ i \in 1..Len(pendingUpdates)
  /\ pendingUpdates' = RemoveAt(pendingUpdates, i)
  /\ effects' = UpdateCatch(failure)
  /\ loading' = FALSE
  /\ UNCHANGED <<species, sessionId, open, openEdit, confirmDelete, currentSpecies,
                 form, popText, errors, pendingDeletes, remote, nTypes>>

(* the user edits one field of the form; the population input goes through *)
(* setValueAs                                                               *)
EditField(newForm, newPopText) ==
  /\ openEdit
  /\ nTypes < MaxTypes
  /\ form' = newForm
  /\ popText' = newPopText
  /\ nTypes' = nTypes + 1
  /\ effects' = <<>>
  /\ UNCHANGED <<species, sessionId, open, openEdit, confirmDelete, currentSpecies,
                 loading, errors, pendingUpdates, pendingDeletes, remote>>

TypeScientificName(text) == EditField([form EXCEPT !.scientific_name = text], popText)

TypeCommonName(text) == EditField([form EXCEPT !.common_name = Str(text)], popText)

SelectKingdom(k) == EditField([form EXCEPT !.kingdom = k], popText)

TypePopulation(text) == EditField([form EXCEPT !.total_population = SetValueAs(text)], text)

TypeDescription(text) == EditField([form EXCEPT !.description = Str(text)], popText)

CloseEditResets ==
  /\ openEdit
  /\ openEdit' = FALSE
  /\ currentSpecies' = species
  /\ effects' = <<SetFlag("setOpenEdit", FALSE)>>
  /\ UNCHANGED <<species, sessionId, open, confirmDelete, loading,
                 form, popText, errors, pendingUpdates, pendingDeletes, remote, nTypes>>

(* onOpenChange of the edit dialog (escape, click outside, close button) *)
CloseEdit ==
  /\ openEdit
  /\ openEdit' = FALSE
  /\ effects' = <<SetFlag("setOpenEdit", FALSE)>>
  /\ UNCHANGED <<species, sessionId, open, confirmDelete, currentSpecies, loading,
                 form, popText, errors, pendingUpdates, pendingDeletes, remote, nTypes>>

(* the message the form renders next to a field: the form renders a label   *)
(* and an input per field and nothing of formState.errors                   *)
NoMessage == ""

RenderedFieldMessage(field) == NoMessage

(* ---------------- SpeciesCard ---------------- *)

(* the Edit and Delete buttons are rendered when species.author === sessionId *)
ControlsPresentAlways == TRUE

ControlsPresent == species.author = sessionId

OpenDetails ==
  /\ ~open
  /\ open' = TRUE
  /\ effects' = <<SetFlag("setOpen", TRUE)>>
  /\ UNCHANGED <<species, sessionId, openEdit, confirmDelete, currentSpecies, loading,
                 form, popText, errors, pendingUpdates, pendingDeletes, remote, nTypes>>

CloseDetails ==
  /\ open
  /\ open' = FALSE
  /\ effects' = <<SetFlag("setOpen", FALSE)>>
  /\ UNCHANGED <<species, sessionId, openEdit, confirmDelete, currentSpecies, loading,
                 form, popText, errors, pendingUpdates, pendingDeletes, remote, nTypes>>

ClickEdit ==
  /\ ControlsPresent
  /\ ~openEdit
  /\ openEdit' = TRUE
  /\ effects' = <<SetFlag("setOpenEdit", TRUE)>>
  /\ UNCHANGED <<species, sessionId, open, confirmDelete, currentSpecies, loading,
                 form, popText, errors, pendingUpdates, pendingDeletes, remote, nTypes>>

ClickDelete ==
  /\ ControlsPresent
  /\ ~confirmDelete
  /\ confirmDelete' = TRUE
  /\ effects' = <<SetFlag("setConfirmDelete", TRUE)>>
  /\ UNCHANGED <<species, sessionId, open, openEdit, currentSpecies, loading,
                 form, popText, errors, pendingUpdates, pendingDeletes, remote, nTypes>>

(* Cancel button of the confirmation dialog, or its onOpenChange *)
CancelDeleteSends ==
  /\ confirmDelete
  /\ confirmDelete' = FALSE
  /\ Len(pendingDeletes) < MaxInFlight
  /\ pendingDeletes' = Append(pendingDeletes, [id |-> currentSpecies.id])
  /\ effects' = <<Call("delete", [id |-> currentSpecies.id]),
                  SetFlag("setConfirmDelete", FALSE)>>
  /\ UNCHANGED <<species, sessionId, open, openEdit, currentSpecies, loading,
                 form, popText, errors, pendingUpdates, remote, nTypes>>

CancelDelete ==
  /\ confirmDelete
  /\ confirmDelete' = FALSE
  /\ effects' = <<SetFlag("setConfirmDelete", FALSE)>>
  /\ UNCHANGED <<species, sessionId, open, openEdit, currentSpecies, loading,
                 form, popText, errors, pendingUpdates, pendingDeletes, remote, nTypes>>

(* Delete button of the confirmation dialog: handleDeleteSpecies up to its  *)
(* await                                                                    *)
ConfirmDelete ==
  /\ confirmDelete
  /\ Len(pendingDeletes) < MaxInFlight
  /\ pendingDeletes' = Append(pendingDeletes, [id |-> currentSpecies.id])
  /\ effects' = <<Call("delete", [id |-> currentSpecies.id])>>
  /\ UNCHANGED <<species, sessionId, open, openEdit, confirmDelete, currentSpecies,
                 loading, form, popText, errors, pendingUpdates, remote, nTypes>>

(* the remote store deletes the row matching the id *)
RemoteDelete(r, id) == IF r.exists /\ r.row.id = id THEN NoRow ELSE r

(* handleDeleteSpecies after the await, no error: toast, router.refresh(),  *)
(* finally setConfirmDelete(false)                                          *)
DeleteSucceedsNoRefresh(i) ==
  /\ i \in 1..Len(pendingDeletes)
  /\ remote' = RemoteDelete(remote, pendingDeletes[i].id)
  /\ pendingDeletes' = RemoveAt(pendingDeletes, i)
  /\ effects' = <<Toast("Species deleted", "The species has been deleted successfully.",
                        "default"),
                  SetFlag("setConfirmDelete", FALSE)>>
  /\ confirmDelete' = FALSE
  /\ UNCHANGED <<species, sessionId, open, openEdit, currentSpecies, loading,
                 form, popText, errors, pendingUpdates, nTypes>>

DeleteSucceeds(i) ==
  /\ i \in 1..Len(pendingDeletes)
  /\ remote' = RemoteDelete(remote, pendingDeletes[i].id)
  /\ pendingDeletes' = RemoveAt(pendingDeletes, i)
  /\ effects' = <<Toast("Species deleted", "The species has been deleted successfully.",
                        "default"),
                  Call("refresh", [view |-> "current"]),
                  SetFlag("setConfirmDelete", FALSE)>>
  /\ confirmDelete' = FALSE
  /\ UNCHANGED <<species, sessionId, open, openEdit, currentSpecies, loading,
                 form, popText, errors, pendingUpdates, nTypes>>

(* the message of the delete error toast *)
ErrMessage(failure) == IF failure.isError THEN failure.message ELSE "Unknown error"

(* handleDeleteSpecies after the await, error thrown: catch, finally         *)
(* setConfirmDelete(false)                                                  *)
DeleteFails(i, failure) ==
  /\ i \in 1..Len(pendingDeletes)
  /\ pendingDeletes' = RemoveAt(pendingDeletes, i)
  /\ effects' = <<Toast("Error deleting species", ErrMessage(failure), "destructive"),
                  SetFlag("setConfirmDelete", FALSE)>>
  /\ confirmDelete' = FALSE
  /\ UNCHANGED <<species, sessionId, open, openEdit, currentSpecies, loading,
                 form, popText, errors, pendingUpdates, remote, nTypes>>

(* ---------------- specification ---------------- *)

Init ==
  /\ species \in InitialRecords
  /\ sessionId \in Viewers
  /\ open = FALSE
  /\ openEdit = FALSE
  /\ confirmDelete = FALSE
  /\ currentSpecies = species
  /\ loading = FALSE
  /\ form = DefaultValues(species)
  /\ popText = NumToText(species.total_population)
  /\ errors = {}
  /\ pendingUpdates = <<>>
  /\ pendingDeletes = <<>>
  /\ remote = Row(species)
  /\ effects = <<>>
  /\ nTypes = 0

Next ==
  \/ OpenDetails
  \/ CloseDetails
  \/ ClickEdit
  \/ CloseEdit
  \/ \E t \in SciInputs : TypeScientificName(t)
  \/ \E t \in CommonInputs : TypeCommonName(t)
  \/ \E k \in KingdomInputs : SelectKingdom(k)
  \/ \E t \in PopInputs : TypePopulation(t)
  \/ \E t \in DescInputs : TypeDescription(t)
  \/ SubmitValid
  \/ SubmitInvalid
  \/ \E i \in 1..Len(pendingUpdates) : UpdateSucceeds(i)
  \/ \E i \in 1..Len(pendingUpdates) : \E f \in Failures : UpdateFails(i, f)
  \/ ClickDelete
  \/ CancelDelete
  \/ ConfirmDelete
  \/ \E i \in 1..Len(pendingDeletes) : DeleteSucceeds(i)
  \/ \E i \in 1..Len(pendingDeletes) : \E f \in Failures : DeleteFails(i, f)

Spec == Init /\ [][Next]_vars

(* ---------------- properties ---------------- *)

(* a submit of the edit form: handleSubmit ran, whichever way the resolver went *)
Submit == SubmitValid \/ SubmitInvalid

(* C1: a successful validated submit invokes the update callback exactly    *)
(* once, with a record whose id, author and image are those of the record   *)
(* passed to the dialog and whose five editable fields are the submitted    *)
(* form values; the update request carries exactly those five fields and    *)
(* is keyed by the record's id.                                             *)
C1_SubmitMergesFiveFields ==
  [][ /\ (Submit /\ SpeciesSchema(form) = {}) =>
           /\ Len(effects') = 1
           /\ effects'[1].call = "update"
           /\ effects'[1].arg.id = currentSpecies.id
           /\ DOMAIN effects'[1].arg.fields = EditableFields
           /\ \A f \in EditableFields : effects'[1].arg.fields[f] = form[f]
      /\ \A i \in 1..Len(pendingUpdates) :
           UpdateSucceeds(i) =>
             LET cb == CallsOf(effects', "onSpeciesUpdated") IN
               /\ Len(cb) = 1
               /\ DOMAIN cb[1].arg = DOMAIN currentSpecies
               /\ cb[1].arg.id = currentSpecies.id
               /\ cb[1].arg.author = currentSpecies.author
               /\ cb[1].arg.image = currentSpecies.image
               /\ \A f \in EditableFields : cb[1].arg[f] = pendingUpdates[i].data[f]
               /\ currentSpecies' = cb[1].arg
               /\ pendingUpdates[i].species = currentSpecies
    ]_vars

C1_Witness ==
  /\ Len(CallsOf(effects, "onSpeciesUpdated")) = 1
  /\ currentSpecies.scientific_name # species.scientific_name
  /\ currentSpecies.total_population = species.total_population
  /\ ~species.image.isNull
  /\ currentSpecies.image = species.image

(* C2: when the update request of a validated submit fails, the callback is *)
(* not invoked, the cached record is unchanged, the failure path does not   *)
(* touch the dialog's open flag, and the submit state returns to idle.      *)
C2_FailedUpdateLeavesRecord ==
  [][ \A i \in 1..Len(pendingUpdates) : \A f \in Failures :
        UpdateFails(i, f) =>
          /\ CallsOf(effects', "onSpeciesUpdated") = <<>>
          /\ CallsOf(effects', "setOpenEdit") = <<>>
          /\ currentSpecies' = currentSpecies
          /\ openEdit' = openEdit
          /\ loading' = FALSE
    ]_vars

C2_Witness ==
  /\ Len(effects) = 1
  /\ effects[1].call = "toast"
  /\ effects[1].arg.title = "Error updating species"
  /\ openEdit
  /\ ~loading
  /\ currentSpecies = species
  /\ UpdatePayload(form) # DefaultValues(currentSpecies)

(* C3: within one dialog instance at most one update request is in flight, *)
(* whatever submits, close/reopen events and responses came before.         *)
C3_OneUpdateInFlight == Len(pendingUpdates) <= 1

(* a submit is pending, the dialog is open again and the form, edited       *)
(* since, would pass validation                                             *)
C3_Witness ==
  /\ Len(pendingUpdates) = 1
  /\ openEdit
  /\ SpeciesSchema(form) = {}
  /\ form # pendingUpdates[1].data

(* C4: a submit with an empty scientific name issues no update request and  *)
(* leaves the submit state idle, the callback uninvoked and the cached      *)
(* record unchanged; every update request sent carries a scientific name of *)
(* length at least 1.                                                       *)
C4_EmptyNameNeverSent ==
  [][ /\ (Submit /\ Len(form.scientific_name) = 0) =>
           /\ CallsOf(effects', "update") = <<>>
           /\ CallsOf(effects', "onSpeciesUpdated") = <<>>
           /\ pendingUpdates' = pendingUpdates
           /\ loading' = FALSE
           /\ currentSpecies' = currentSpecies
      /\ \A i \in 1..Len(effects') :
           effects'[i].call = "update" => Len(effects'[i].arg.fields.scientific_name) >= 1
    ]_vars

C4_Witness ==
  /\ form.scientific_name = <<>>
  /\ \E e \in errors : e.field = "scientific_name"
  /\ ~loading
  /\ pendingUpdates = <<>>
  /\ openEdit

(* C5: after a submit with an empty scientific name the form shows a field  *)
(* level error message for the scientific name field.                       *)
C5_FieldErrorShown ==
  (\E e \in errors : e.field = "scientific_name")
     => RenderedFieldMessage("scientific_name") # NoMessage

(* C6: an empty population input is normalized to absent before validation: *)
(* a submit whose population input is empty (the other fields being valid)  *)
(* passes validation and sends total_population absent, never 0, and the    *)
(* merged record given to the callback carries absent as well.              *)
C6_EmptyPopulationIsAbsent ==
  [][ /\ (Submit /\ popText = <<>> /\ Len(form.scientific_name) >= 1) =>
           /\ Len(CallsOf(effects', "update")) = 1
           /\ CallsOf(effects', "update")[1].arg.fields.total_population = NullNum
           /\ pendingUpdates' = Append(pendingUpdates, [data |-> form, species |-> currentSpecies])
           /\ form.total_population = NullNum
      /\ \A i \in 1..Len(pendingUpdates) :
           (UpdateSucceeds(i) /\ pendingUpdates[i].data.total_population = NullNum) =>
             /\ Len(CallsOf(effects', "onSpeciesUpdated")) = 1
             /\ CallsOf(effects', "onSpeciesUpdated")[1].arg.total_population = NullNum
    ]_vars

(* the population of a record that had one was cleared and submitted *)
C6_Witness ==
  /\ Len(CallsOf(effects, "onSpeciesUpdated")) = 1
  /\ popText = <<>>
  /\ species.total_population.kind = "number"
  /\ currentSpecies.total_population = NullNum

(* C7: the Edit and Delete controls are present exactly when the record's   *)
(* owner equals the viewer; for a viewer who is not the owner the edit      *)
(* dialog and the delete confirmation are never open and no update or       *)
(* delete request is ever issued.                                           *)
C7_ControlsOnlyForOwner ==
  /\ ControlsPresent <=> (species.author = sessionId)
  /\ (species.author # sessionId) =>
        /\ ~openEdit
        /\ ~confirmDelete
        /\ pendingUpdates = <<>>
        /\ pendingDeletes = <<>>
        /\ CallsOf(effects, "update") = <<>>
        /\ CallsOf(effects, "delete") = <<>>
        /\ remote = Row(species)
        /\ currentSpecies = species

C7_Witness ==
  /\ species.author # sessionId
  /\ open

(* the delete state machine of the card *)
DeleteState ==
  IF pendingDeletes # <<>> THEN "deleting"
  ELSE IF confirmDelete THEN "confirm-pending" ELSE "idle"

(* C8: Cancel in the confirmation dialog sends no request and takes the     *)
(* delete state machine from confirm-pending to idle; a delete request is   *)
(* issued only by the Delete button of the confirmation dialog.             *)
C8_CancelSendsNothing ==
  [][ /\ CancelDelete =>
           /\ CallsOf(effects', "delete") = <<>>
           /\ pendingDeletes' = pendingDeletes
           /\ remote' = remote
           /\ confirmDelete' = FALSE
           /\ (DeleteState = "confirm-pending" => DeleteState' = "idle")
      /\ (CallsOf(effects', "delete") # <<>> \/ Len(pendingDeletes') > Len(pendingDeletes))
           => (confirmDelete /\ confirmDelete' /\ ConfirmDelete)
    ]_vars

(* the confirmation was opened and cancelled: nothing sent, row still there *)
C8_Witness ==
  /\ effects = <<SetFlag("setConfirmDelete", FALSE)>>
  /\ ~confirmDelete
  /\ pendingDeletes = <<>>
  /\ remote.exists
  /\ DeleteState = "idle"

(* C9: confirming a deletion issues a single delete request: at most one    *)
(* delete request of a card is in flight at any time.                       *)
C9_OneDeleteInFlight == Len(pendingDeletes) <= 1

(* C10: a failed delete shows an error notification and triggers no view    *)
(* refresh, the cached record and the remote row staying in place; a        *)
(* successful delete shows a success notification and triggers the view     *)
(* refresh exactly once.                                                    *)
C10_DeleteOutcome ==
  [][ \A i \in 1..Len(pendingDeletes) :
        /\ \A f \in Failures :
             DeleteFails(i, f) =>
               /\ Len(CallsOf(effects', "toast")) = 1
               /\ CallsOf(effects', "toast")[1].arg.variant = "destructive"
               /\ CallsOf(effects', "toast")[1].arg.title = "Error deleting species"
               /\ CallsOf(effects', "toast")[1].arg.description =
                    (IF f.isError THEN f.message ELSE "Unknown error")
               /\ CallsOf(effects', "refresh") = <<>>
               /\ currentSpecies' = currentSpecies
               /\ remote' = remote
        /\ DeleteSucceeds(i) =>
               /\ Len(CallsOf(effects', "toast")) = 1
               /\ CallsOf(effects', "toast")[1].arg.variant = "default"
               /\ CallsOf(effects', "toast")[1].arg.title = "Species deleted"
               /\ Len(CallsOf(effects', "refresh")) = 1
               /\ currentSpecies' = currentSpecies
    ]_vars

C10_Witness ==
  /\ Len(effects) = 2
  /\ effects[1].call = "toast"
  /\ effects[1].arg.title = "Error deleting species"
  /\ effects[1].arg.description = "Unknown error"
  /\ remote.exists
  /\ currentSpecies = species
  /\ ~confirmDelete

(* C11: every failed update request shows an error notification carrying   *)
(* the failure's message, and a submission attempt shows at most one        *)
(* notification.                                                            *)
C11_FailedUpdateNotified ==
  [][ /\ \A i \in 1..Len(pendingUpdates) : \A f \in Failures :
           UpdateFails(i, f) =>
             /\ Len(CallsOf(effects', "toast")) = 1
             /\ CallsOf(effects', "toast")[1].arg.description = f.message
      /\ Len(CallsOf(effects', "toast")) <= 1
    ]_vars

(* the remote store answers an update request: the awaited call resolves *)
UpdateResponse ==
  \E i \in 1..Len(pendingUpdates) :
    UpdateSucceeds(i) \/ \E f \in Failures : UpdateFails(i, f)

(* the remote store answers a delete request *)
DeleteResponse ==
  \E i \in 1..Len(pendingDeletes) :
    DeleteSucceeds(i) \/ \E f \in Failures : DeleteFails(i, f)

(* the remote store answers every request it is sent *)
FairSpec == Spec /\ WF_vars(UpdateResponse) /\ WF_vars(DeleteResponse)

(* C12: once the store answers an update the submitting flag becomes false, *)
(* once it answers a delete the confirmation dialog closes, and until the   *)
(* answer to an update arrives the submitting flag stays set.               *)
C12_ReturnsToIdle ==
  /\ [][ /\ UpdateResponse => ~loading'
         /\ DeleteResponse => ~confirmDelete'
         /\ (loading /\ ~loading') => UpdateResponse ]_vars
  /\ [](pendingUpdates # <<>> => loading)
  /\ []<>(~loading)
  /\ []<>(~(pendingDeletes # <<>> /\ confirmDelete))

(* both kinds of request have been answered, the delete one last *)
C12_Witness ==
  /\ Len(CallsOf(effects, "toast")) = 1
  /\ CallsOf(effects, "toast")[1].arg.title = "Error deleting species"
  /\ ~confirmDelete
  /\ ~loading
  /\ currentSpecies # species
  /\ pendingUpdates = <<>>
  /\ pendingDeletes = <<>>

(* C13: the population of the cached record and of every update request    *)
(* sent is absent or a non-negative integer.                                *)
C13_PopulationNonNegative ==
  LET Allowed(p) == p.kind = "null" \/ (p.kind = "number" /\ p.v >= 0)
  IN  /\ Allowed(currentSpecies.total_population)
      /\ \A i \in 1..Len(pendingUpdates) :
           Allowed(pendingUpdates[i].data.total_population)
      /\ \A i \in 1..Len(effects) :
           effects[i].call = "update" => Allowed(effects[i].arg.fields.total_population)

(* C14: the id of the cached record is the id of the record the card was    *)
(* mounted with, and every update and delete request is keyed by that id.   *)
C14_IdImmutable ==
  /\ currentSpecies.id = species.id
  /\ \A i \in 1..Len(pendingUpdates) : pendingUpdates[i].species.id = species.id
  /\ \A i \in 1..Len(pendingDeletes) : pendingDeletes[i].id = species.id
  /\ \A i \in 1..Len(effects) :
       effects[i].call \in {"update", "delete"} => effects[i].arg.id = species.id
  /\ remote.exists => remote.row.id = species.id

(* a delete request was sent after an edit had replaced the cached record *)
C14_Witness ==
  /\ Len(CallsOf(effects, "delete")) = 1
  /\ currentSpecies # species
  /\ pendingDeletes # <<>>

(* C15: whenever the edit dialog is opened the five form fields shown equal *)
(* the corresponding fields of the cached record.                           *)
C15_FormShowsCachedRecord ==
  [][ (~openEdit /\ openEdit') => form' = DefaultValues(currentSpecies') ]_vars

(* C16: the cached record changes only in the step where a successful edit  *)
(* submit invokes the update callback.                                      *)
C16_CacheChangesOnlyOnSuccess ==
  [][ currentSpecies' # currentSpecies =>
        /\ \E i \in 1..Len(pendingUpdates) : UpdateSucceeds(i)
        /\ Len(CallsOf(effects', "onSpeciesUpdated")) = 1
        /\ currentSpecies' = CallsOf(effects', "onSpeciesUpdated")[1].arg
    ]_vars

(* an edit replaced the cached record and a later cancelled delete kept it *)
C16_Witness ==
  /\ currentSpecies # species
  /\ effects = <<SetFlag("setConfirmDelete", FALSE)>>
  /\ ~confirmDelete

(* ---------------- SpeciesCard: rendered text ---------------- *)
(* JavaScript truthiness of a number | null: null, NaN and 0 are falsy *)
NumTruthy(p) == p.kind = "number" /\ p.v # 0

(* JavaScript truthiness of a string | null: null and "" are falsy *)
StrTruthy(d) == ~d.isNull /\ d.v # <<>>

RECURSIVE GroupThousands(_)
GroupThousands(digits) ==
  IF Len(digits) <= 3 THEN digits
  ELSE GroupThousands(SubSeq(digits, 1, Len(digits) - 3))
         \o <<",">> \o SubSeq(digits, Len(digits) - 2, Len(digits))

(* Number.prototype.toLocaleString() of an integer, en-US grouping *)
ToLocaleString(n) ==
  IF n < 0 THEN <<"-">> \o GroupThousands(NatToText(0 - n)) ELSE GroupThousands(NatToText(n))

NotAvailable == <<"N", "/", "A">>

(* the Total Population line of the details dialog *)
RenderedPopulation(s) ==
  IF NumTruthy(s.total_population) THEN ToLocaleString(s.total_population.v)
  ELSE NotAvailable

(* C17: the details dialog renders "N/A" exactly when the cached record's   *)
(* total_population is absent; every present value, 0 included, is rendered *)
(* as the number with thousands grouping.                                   *)
C17_PlaceholderOnlyWhenAbsent ==
  open =>
    LET p == currentSpecies.total_population
    IN  /\ (RenderedPopulation(currentSpecies) = NotAvailable) <=> (p = NullNum)
        /\ p.kind = "number" => RenderedPopulation(currentSpecies) = ToLocaleString(p.v)

(* ---------------- SpeciesCard: description preview ---------------- *)
PreviewLen == 150

Whitespace == {" ", "\t", "\n"}

Ellipsis == <<".", ".", ".">>

(* String.prototype.slice(0, n) *)
Slice(s, n) == SubSeq(s, 1, IF Len(s) < n THEN Len(s) ELSE n)

RECURSIVE TrimStart(_)
TrimStart(s) ==
  IF s # <<>> /\ Head(s) \in Whitespace THEN TrimStart(Tail(s)) ELSE s

RECURSIVE TrimEnd(_)
TrimEnd(s) ==
  IF s # <<>> /\ s[Len(s)] \in Whitespace THEN TrimEnd(SubSeq(s, 1, Len(s) - 1)) ELSE s

(* String.prototype.trim() *)
Trim(s) == TrimEnd(TrimStart(s))

DescriptionPreviewNoTrim(s) ==
  IF StrTruthy(s.description)
  THEN Slice(s.description.v, PreviewLen) \o Ellipsis
  ELSE <<>>

(* the preview paragraph of the card *)
DescriptionPreview(s) ==
  IF StrTruthy(s.description)
  THEN Trim(Slice(s.description.v, PreviewLen)) \o Ellipsis
  ELSE <<>>

Repeat(c, n) == [k \in 1..n |-> c]

(* descriptions typed into the textarea: a run of spaces, a word, a run of  *)
(* newlines and a second word, with lengths on both sides of PreviewLen     *)
LongDescInputs ==
  { Repeat(" ", lead) \o Repeat("x", n) \o Repeat("\n", mid) \o Repeat("y", k) :
      lead \in {0, 1}, mid \in {0, 1, 2}, k \in {0, 1},
      n \in {0, 1, PreviewLen - 2, PreviewLen - 1, PreviewLen, PreviewLen + 1} }

(* the card with the description edited: the owner types a description,     *)
(* submits, the update succeeds and the card renders the new record         *)
RenderNext ==
  \/ OpenDetails
  \/ CloseDetails
  \/ ClickEdit
  \/ CloseEdit
  \/ \E t \in LongDescInputs : TypeDescription(t)
  \/ SubmitValid
  \/ \E i \in 1..Len(pendingUpdates) : UpdateSucceeds(i)

RenderSpec == Init /\ [][RenderNext]_vars

(* preview is text followed by "...", where text is what is left of the     *)
(* first PreviewLen characters of description once the whitespace at both   *)
(* ends is removed                                                          *)
IsTrimmedPrefixWithEllipsis(preview, description) ==
  LET n == IF Len(description) < PreviewLen THEN Len(description) ELSE PreviewLen
      m == Len(preview) - Len(Ellipsis)
  IN  /\ m >= 0
      /\ \A k \in 1..Len(Ellipsis) : preview[m + k] = "."
      /\ m > 0 => preview[1] \notin Whitespace /\ preview[m] \notin Whitespace
      /\ \E i \in 0..n :
           /\ i + m <= n
           /\ \A k \in 1..m : preview[k] = description[i + k]
           /\ \A k \in 1..i : description[k] \in Whitespace
           /\ \A k \in (i + m + 1)..n : description[k] \in Whitespace

(* C18 as stated: for every record whose description exists the preview is  *)
(* the first 150 characters, trimmed, followed by "..."; for every record   *)
(* with no description it is the empty string.                              *)
C18_PreviewWhenDescriptionExists ==
  LET d == currentSpecies.description
  IN  IF ~d.isNull
      THEN IsTrimmedPrefixWithEllipsis(DescriptionPreview(currentSpecies), d.v)
      ELSE DescriptionPreview(currentSpecies) = <<>>

(* C18 amended: for every record whose description is a non-empty string    *)
(* the preview is the first 150 characters, trimmed, followed by "..."; for *)
(* every record whose description is absent or empty it is the empty string *)
C18_PreviewWhenDescriptionNonEmpty ==
  LET d == currentSpecies.description
  IN  IF ~d.isNull /\ Len(d.v) > 0
      THEN IsTrimmedPrefixWithEllipsis(DescriptionPreview(currentSpecies), d.v)
      ELSE DescriptionPreview(currentSpecies) = <<>>

(* the cached description is longer than the cut and the cut piece lost     *)
(* whitespace at both ends                                                  *)
C18_Witness ==
  /\ ~currentSpecies.description.isNull
  /\ Len(currentSpecies.description.v) > PreviewLen
  /\ currentSpecies.description.v[1] \in Whitespace
  /\ currentSpecies.description.v[PreviewLen] \in Whitespace
  /\ Len(DescriptionPreview(currentSpecies)) = PreviewLen - 2 + Len(Ellipsis)

(* C19: with a single card and no other writer, whenever no update request  *)
(* is in flight and the remote row still exists, the five editable fields   *)
(* of the cached record equal those of the remote row.                      *)
C19_CacheCoherent ==
  (pendingUpdates = <<>> /\ remote.exists) =>
    \A f \in EditableFields : currentSpecies[f] = remote.row[f]

(* an edit went through and a later submit failed; nothing is in flight *)
C19_Witness ==
  /\ pendingUpdates = <<>>
  /\ remote.exists
  /\ currentSpecies # species
  /\ effects = <<Toast("Error updating species", "network", "destructive")>>

====
